---- MODULE Spec2Model ----
(***************************************************************************)
(* Coin ledger of the LeakOSINT Telegram bot (src/main.py).                *)
(*                                                                         *)
(* The database is the pair (users, transactions) of committed tables.     *)
(* Every helper opens its own sqlite3 connection (get_conn), so a handler  *)
(* is a sequence of SQL statements, each of which is one step here.        *)
(* Python's sqlite3 opens a transaction implicitly before the first        *)
(* INSERT/UPDATE of a connection and SQLite lets one connection write at   *)
(* a time: `lock` is the connection holding the write lock, pusers/ptx its *)
(* uncommitted tables, which commit() publishes.  A SELECT runs outside    *)
(* any transaction and reads the committed tables.  A statement that needs *)
(* the write lock waits for it (sqlite3's busy timeout); the writer's      *)
(* remaining statements are local, so the wait ends and the "database is   *)
(* locked" error of an expired timeout is left out.                        *)
(***************************************************************************)
EXTENDS Integers, Sequences, FiniteSets, TLC

\* ---------------------------------------------------------------- bounds
NumIds == 3
NumProcs == 2
MaxCalls == 3
MaxStartCalls == 4

Ids == 1..NumIds
Procs == 1..NumProcs

\* ----------------------------------------------------------- configuration
COIN_COST_PER_SEARCH == 1
NEW_USER_COINS == 1
REFERRAL_REWARD == 1
ADMIN_IDS == {NumIds}

\* SQL NULL in an integer column; None / no text
NULL == 0
None == <<>>

\* ------------------------------------------------------------------ helpers
generate_referral_code(tg_id) == <<"r", tg_id>>

\* tg_user.username: identity 1 has no Telegram username set
TgUsername(tg_id) == IF tg_id = 1 THEN None ELSE <<"name", tg_id>>

DisplayName(tg_id) ==
    IF TgUsername(tg_id) # None THEN TgUsername(tg_id) ELSE <<"user", tg_id>>

NoRow ==
    [present |-> FALSE, username |-> None, referral_code |-> None,
     referred_by |-> NULL, coins |-> 0, created_at |-> 0]

\* the INSERT without its coins value: the column's DEFAULT 0 applies
NewUserRowDefaultCoins(tg_id, created_at) ==
    [present |-> TRUE, username |-> DisplayName(tg_id),
     referral_code |-> generate_referral_code(tg_id),
     referred_by |-> NULL, coins |-> 0, created_at |-> created_at]

\* the row ensure_user inserts (lines 114-117); referred_by is left NULL
NewUserRow(tg_id, created_at) ==
    [present |-> TRUE, username |-> DisplayName(tg_id),
     referral_code |-> generate_referral_code(tg_id),
     referred_by |-> NULL, coins |-> NEW_USER_COINS, created_at |-> created_at]

TxRow(tg_id, kind, amount, note) ==
    [telegram_id |-> tg_id, kind |-> kind, amount |-> amount, note |-> note]

\* SELECT ... FROM users WHERE referral_code=?  (0 when no row matches)
get_user_by_refcode(tbl, code) ==
    IF \E i \in Ids : tbl[i].present /\ tbl[i].referral_code = code
    THEN CHOOSE i \in Ids : tbl[i].present /\ tbl[i].referral_code = code
    ELSE NULL

VARIABLES users, transactions, lock, pusers, ptx, pc, call, loc, result, ncalls,
          snap, reply

vars == <<users, transactions, lock, pusers, ptx, pc, call, loc, result, ncalls,
          snap, reply>>

\* snap[p] is a history variable: the committed tables as the running call of p
\* read them when it tested referred_by (start_cmd line 221)
NoSnap == [users |-> [i \in Ids |-> NoRow], transactions |-> <<>>]

\* reply[p]: the value the last reply to p's caller was formatted from
NoReply == <<>>

NoCall == [cmd |-> "none", tg |-> 0, arg |-> None, amount |-> 0]

Init ==
    /\ users = [i \in Ids |-> NoRow]
    /\ transactions = <<>>
    /\ lock = 0
    /\ pusers = users
    /\ ptx = transactions
    /\ pc = [p \in Procs |-> "idle"]
    /\ call = [p \in Procs |-> NoCall]
    /\ loc = [p \in Procs |-> 0]
    /\ result = [p \in Procs |-> "none"]
    /\ ncalls = 0
    /\ snap = [p \in Procs |-> NoSnap]
    /\ reply = [p \in Procs |-> NoReply]

\* datetime.utcnow(): a logical clock, the number of rows the log holds so far
Now == Len(transactions) + 1

\* ------------------------------------------------------- SQL statements
\* the UPDATE without its WHERE clause: every row is credited
SqlAddCoinsAllRows(tbl, tg_id, amount) ==
    [i \in Ids |-> IF tbl[i].present
                   THEN [tbl[i] EXCEPT !.coins = @ + amount] ELSE tbl[i]]

\* UPDATE users SET coins = coins + ? WHERE telegram_id=?
SqlAddCoins(tbl, tg_id, amount) ==
    [i \in Ids |-> IF i = tg_id /\ tbl[i].present
                   THEN [tbl[i] EXCEPT !.coins = @ + amount] ELSE tbl[i]]

\* set_coins adding the amount instead of storing it
SqlSetCoinsAsDelta(tbl, tg_id, amount) ==
    [i \in Ids |-> IF i = tg_id /\ tbl[i].present
                   THEN [tbl[i] EXCEPT !.coins = @ + amount] ELSE tbl[i]]

\* UPDATE users SET coins = ? WHERE telegram_id=?
SqlSetCoins(tbl, tg_id, amount) ==
    [i \in Ids |-> IF i = tg_id /\ tbl[i].present
                   THEN [tbl[i] EXCEPT !.coins = amount] ELSE tbl[i]]

\* the UPDATE with its two parameters swapped
SqlSetReferredBySwapped(tbl, tg_id, ref_tg_id) ==
    [i \in Ids |-> IF i = ref_tg_id /\ tbl[i].present
                   THEN [tbl[i] EXCEPT !.referred_by = tg_id] ELSE tbl[i]]

\* UPDATE users SET referred_by=? WHERE telegram_id=?
SqlSetReferredBy(tbl, tg_id, ref_tg_id) ==
    [i \in Ids |-> IF i = tg_id /\ tbl[i].present
                   THEN [tbl[i] EXCEPT !.referred_by = ref_tg_id] ELSE tbl[i]]

\* INSERT INTO users ...: the new table (the caller checks the UNIQUE constraint)
SqlInsertUser(tbl, tg_id, created_at) ==
    [tbl EXCEPT ![tg_id] = NewUserRow(tg_id, created_at)]

\* the users table without its UNIQUE constraint on telegram_id
NoUniqueConstraint(tbl, tg_id) == FALSE

\* telegram_id INTEGER UNIQUE, referral_code TEXT UNIQUE: the INSERT raises
\* sqlite3.IntegrityError
UniqueViolation(tbl, tg_id) ==
    \/ tbl[tg_id].present
    \/ \E i \in Ids : /\ tbl[i].present
                      /\ tbl[i].referral_code = generate_referral_code(tg_id)

\* ------------------------------------------------------ connection steps
Goto(p, label) == pc' = [pc EXCEPT ![p] = label]

\* the handler replies with a text formatted from v and returns
FinishReply(p, r, v) ==
    /\ pc' = [pc EXCEPT ![p] = "idle"]
    /\ result' = [result EXCEPT ![p] = r]
    /\ call' = [call EXCEPT ![p] = NoCall]
    /\ loc' = [loc EXCEPT ![p] = 0]
    /\ snap' = [snap EXCEPT ![p] = NoSnap]
    /\ reply' = [reply EXCEPT ![p] = v]

\* the handler returns (or raises): the update is done
Finish(p, r) == FinishReply(p, r, NoReply)

\* first INSERT/UPDATE of a connection: implicit BEGIN, takes the write lock
BeginWrite(p, tbl) ==
    /\ lock = 0
    /\ lock' = p
    /\ pusers' = tbl
    /\ UNCHANGED <<ptx, users, transactions>>

\* a later statement of the open transaction
InsertTx(p, row) ==
    /\ lock = p
    /\ ptx' = Append(ptx, row)
    /\ UNCHANGED <<lock, pusers, users, transactions>>

\* conn.commit()
Commit(p) ==
    /\ lock = p
    /\ users' = pusers
    /\ transactions' = ptx
    /\ lock' = 0
    /\ UNCHANGED <<pusers, ptx>>

NoDb == UNCHANGED <<users, transactions, lock, pusers, ptx>>

\* ------------------------------------------------------------ deduct_coins
\* the comparison off by one: a balance one short still passes
InsufficientOffByOne(coins, amount) == coins + 1 < amount

\* coins < amount  (line 160)
Insufficient(coins, amount) == coins < amount

Tokens == {generate_referral_code(i) : i \in Ids}

\* ---------------------------------------------------------------- start_cmd
StartCall(p, bound) ==
    /\ pc[p] = "idle"
    /\ ncalls < bound
    /\ \E tg \in Ids, arg \in Tokens \cup {None} :
         call' = [call EXCEPT ![p] =
                    [cmd |-> "start", tg |-> tg, arg |-> arg, amount |-> 0]]
    /\ Goto(p, "ensure_select")
    /\ result' = [result EXCEPT ![p] = "running"]
    /\ ncalls' = ncalls + 1
    /\ NoDb /\ UNCHANGED <<loc, snap, reply>>

\* ensure_user: SELECT telegram_id FROM users WHERE telegram_id=?
EnsureSelect(p) ==
    /\ pc[p] = "ensure_select"
    /\ IF users[call[p].tg].present
       THEN Goto(p, "ref_lookup")
       ELSE Goto(p, "ensure_insert_user")
    /\ NoDb /\ UNCHANGED <<call, loc, result, ncalls, snap, reply>>

\* ensure_user: INSERT INTO users
EnsureInsertUser(p) ==
    /\ pc[p] = "ensure_insert_user"
    /\ lock = 0
    /\ IF UniqueViolation(users, call[p].tg)
       THEN /\ Finish(p, "IntegrityError")
            /\ NoDb
       ELSE /\ BeginWrite(p, SqlInsertUser(users, call[p].tg, Now))
            /\ Goto(p, "ensure_insert_tx")
            /\ UNCHANGED <<call, loc, result, snap, reply>>
    /\ UNCHANGED ncalls

\* ensure_user: INSERT INTO transactions ('reward')
EnsureInsertTx(p) ==
    /\ pc[p] = "ensure_insert_tx"
    /\ InsertTx(p, TxRow(call[p].tg, "reward", NEW_USER_COINS, <<"new_user_bonus">>))
    /\ Goto(p, "ensure_commit")
    /\ UNCHANGED <<call, loc, result, ncalls, snap, reply>>

EnsureCommit(p) ==
    /\ pc[p] = "ensure_commit"
    /\ Commit(p)
    /\ Goto(p, "ref_lookup")
    /\ UNCHANGED <<call, loc, result, ncalls, snap, reply>>

\* start_cmd without the self-referral test
NoSelfReferralTest(ref_tg_id, tg_id) == FALSE

\* line 218: if ref_tg_id != tg_user.id
IsSelfReferral(ref_tg_id, tg_id) == ref_tg_id = tg_id

\* start_cmd lines 213-218: get_user_by_refcode and the self-referral test
RefLookup(p) ==
    /\ pc[p] = "ref_lookup"
    /\ LET ref_tg_id == get_user_by_refcode(users, call[p].arg) IN
       IF call[p].arg = None THEN Finish(p, "no_token")
       ELSE IF ref_tg_id = NULL THEN Finish(p, "unknown_token")
       ELSE IF IsSelfReferral(ref_tg_id, call[p].tg)
            THEN Finish(p, "self_referral")
       ELSE /\ Goto(p, "ref_select")
            /\ loc' = [loc EXCEPT ![p] = ref_tg_id]
            /\ UNCHANGED <<call, result, snap, reply>>
    /\ NoDb /\ UNCHANGED ncalls

\* start_cmd lines 221-224: SELECT referred_by FROM users WHERE telegram_id=?
RefSelect(p) ==
    /\ pc[p] = "ref_select"
    /\ LET r == users[call[p].tg] IN
       IF r.present /\ r.referred_by = NULL
       THEN /\ Goto(p, "ref_update")
            /\ snap' = [snap EXCEPT ![p] =
                          [users |-> users, transactions |-> transactions]]
            /\ UNCHANGED <<call, loc, result, reply>>
       ELSE Finish(p, "already_referred")
    /\ NoDb /\ UNCHANGED ncalls

\* start_cmd line 225: UPDATE users SET referred_by=?
RefUpdate(p) ==
    /\ pc[p] = "ref_update"
    /\ BeginWrite(p, SqlSetReferredBy(users, call[p].tg, loc[p]))
    /\ Goto(p, "ref_commit")
    /\ UNCHANGED <<call, loc, result, ncalls, snap, reply>>

RefCommit(p) ==
    /\ pc[p] = "ref_commit"
    /\ Commit(p)
    /\ Goto(p, "award_referrer_update")
    /\ UNCHANGED <<call, loc, result, ncalls, snap, reply>>

\* line 229: award_coins(ref_tg_id, REFERRAL_REWARD, kind="referral", ...)
AwardReferrerUpdate(p) ==
    /\ pc[p] = "award_referrer_update"
    /\ BeginWrite(p, SqlAddCoins(users, loc[p], REFERRAL_REWARD))
    /\ Goto(p, "award_referrer_insert")
    /\ UNCHANGED <<call, loc, result, ncalls, snap, reply>>

AwardReferrerInsert(p) ==
    /\ pc[p] = "award_referrer_insert"
    /\ InsertTx(p, TxRow(loc[p], "referral", REFERRAL_REWARD,
                         <<"referred", call[p].tg>>))
    /\ Goto(p, "award_referrer_commit")
    /\ UNCHANGED <<call, loc, result, ncalls, snap, reply>>

AwardReferrerCommit(p) ==
    /\ pc[p] = "award_referrer_commit"
    /\ Commit(p)
    /\ Goto(p, "award_referred_update")
    /\ UNCHANGED <<call, loc, result, ncalls, snap, reply>>

\* line 230: award_coins(tg_user.id, REFERRAL_REWARD, kind="referral", ...)
AwardReferredUpdate(p) ==
    /\ pc[p] = "award_referred_update"
    /\ BeginWrite(p, SqlAddCoins(users, call[p].tg, REFERRAL_REWARD))
    /\ Goto(p, "award_referred_insert")
    /\ UNCHANGED <<call, loc, result, ncalls, snap, reply>>

AwardReferredInsert(p) ==
    /\ pc[p] = "award_referred_insert"
    /\ InsertTx(p, TxRow(call[p].tg, "referral", REFERRAL_REWARD,
                         <<"referred_by", loc[p]>>))
    /\ Goto(p, "award_referred_commit")
    /\ UNCHANGED <<call, loc, result, ncalls, snap, reply>>

AwardReferredCommit(p) ==
    /\ pc[p] = "award_referred_commit"
    /\ Commit(p)
    /\ Finish(p, "referred")
    /\ UNCHANGED ncalls

\* --------------------------------------------------------------- search_cmd
\* lines 275-285: usage check and the admin exemption
SearchCall(p, bound) ==
    /\ pc[p] = "idle"
    /\ ncalls < bound
    /\ ncalls' = ncalls + 1
    /\ \E tg \in Ids, query_text \in {"", "q"} :
         IF query_text = ""
         THEN Finish(p, "usage")
         ELSE /\ call' = [call EXCEPT ![p] =
                    [cmd |-> "search", tg |-> tg, arg |-> None,
                     amount |-> COIN_COST_PER_SEARCH]]
              /\ result' = [result EXCEPT ![p] = "running"]
              /\ IF tg \in ADMIN_IDS THEN Goto(p, "lookup")
                                     ELSE Goto(p, "deduct_select")
              /\ UNCHANGED <<loc, snap, reply>>
    /\ NoDb

\* search_cmd without the return of line 285: a refused debit falls through
\* to the lookup
DeductSelectNoReturn(p) ==
    /\ pc[p] = "deduct_select"
    /\ LET row == users[call[p].tg] IN
       IF ~row.present \/ Insufficient(row.coins, call[p].amount)
       THEN Goto(p, "lookup")
       ELSE Goto(p, "deduct_update")
    /\ NoDb /\ UNCHANGED <<call, loc, result, ncalls, snap, reply>>

\* deduct_coins lines 154-162: SELECT coins, compare; search_cmd lines 283-285
DeductSelect(p) ==
    /\ pc[p] = "deduct_select"
    /\ LET row == users[call[p].tg] IN
       IF ~row.present THEN Finish(p, "user_not_found")
       ELSE IF Insufficient(row.coins, call[p].amount)
            THEN Finish(p, "insufficient")
            ELSE Goto(p, "deduct_update") /\ UNCHANGED <<call, loc, result, snap, reply>>
    /\ NoDb /\ UNCHANGED ncalls

\* deduct_coins line 163: UPDATE users SET coins = coins - ?
DeductUpdate(p) ==
    /\ pc[p] = "deduct_update"
    /\ BeginWrite(p, SqlAddCoins(users, call[p].tg, -call[p].amount))
    /\ Goto(p, "deduct_insert")
    /\ UNCHANGED <<call, loc, result, ncalls, snap, reply>>

\* the row logged with the amount not negated
DeductInsertPositive(p) ==
    /\ pc[p] = "deduct_insert"
    /\ InsertTx(p, TxRow(call[p].tg, "search", call[p].amount, <<"osint_search">>))
    /\ Goto(p, "deduct_commit")
    /\ UNCHANGED <<call, loc, result, ncalls, snap, reply>>

\* deduct_coins lines 164-167: INSERT INTO transactions ... 'search', -amount
DeductInsert(p) ==
    /\ pc[p] = "deduct_insert"
    /\ InsertTx(p, TxRow(call[p].tg, "search", -call[p].amount, <<"osint_search">>))
    /\ Goto(p, "deduct_commit")
    /\ UNCHANGED <<call, loc, result, ncalls, snap, reply>>

DeductCommit(p) ==
    /\ pc[p] = "deduct_commit"
    /\ Commit(p)
    /\ Goto(p, "lookup")
    /\ UNCHANGED <<call, loc, result, ncalls, snap, reply>>

\* a search_cmd that credits the cost back when the lookup fails
LookupRefundOnError(p) ==
    /\ pc[p] = "lookup"
    /\ lock = 0
    /\ \/ Finish(p, "data") /\ NoDb
       \/ /\ Finish(p, "error")
          /\ users' = SqlAddCoins(users, call[p].tg, call[p].amount)
          /\ transactions' =
                Append(transactions,
                       TxRow(call[p].tg, "refund", call[p].amount, <<"osint_search">>))
          /\ UNCHANGED <<lock, pusers, ptx>>
    /\ UNCHANGED ncalls

\* query_leakosint: the API answers with data, or the request fails
Lookup(p) ==
    /\ pc[p] = "lookup"
    /\ \E r \in {"data", "error"} : Finish(p, r)
    /\ NoDb /\ UNCHANGED ncalls

\* ------------------------------------------------- addcoin_cmd / setcoins_cmd
\* the authorisation test letting every caller through
is_admin_anyone(tg_id) == TRUE

\* is_admin: tg_id in ADMIN_IDS
is_admin(tg_id) == tg_id \in ADMIN_IDS

\* identifier.isdigit()
IsDigit(identifier) == identifier[1] = "digits"

\* identifier.lstrip("@")
LStripAt(identifier) == IF identifier[1] = "at" THEN identifier[2] ELSE identifier

\* a numeric identifier taken as the telegram_id without looking it up
get_user_by_identifier_unchecked(tbl, identifier) ==
    IF IsDigit(identifier) THEN identifier[2]
    ELSE IF \E i \in Ids : tbl[i].present /\ tbl[i].username = LStripAt(identifier)
         THEN CHOOSE i \in Ids :
                  tbl[i].present /\ tbl[i].username = LStripAt(identifier)
         ELSE NULL

\* get_user_by_identifier: by telegram_id when numeric, else by username
get_user_by_identifier(tbl, identifier) ==
    IF IsDigit(identifier)
    THEN IF identifier[2] \in Ids /\ tbl[identifier[2]].present
         THEN identifier[2] ELSE NULL
    ELSE IF \E i \in Ids : tbl[i].present /\ tbl[i].username = LStripAt(identifier)
         THEN CHOOSE i \in Ids :
                  tbl[i].present /\ tbl[i].username = LStripAt(identifier)
         ELSE NULL

\* int(args[1]) succeeds
IsIntText(t) == t[1] = "int"
ParseInt(t) == t[2]

AdminAmounts == {-1, 0, 2}
Idents ==
    {<<"digits", i>> : i \in Ids} \cup {<<"at", DisplayName(2)>>, DisplayName(1)}
AmountTexts == {<<"int", a>> : a \in AdminAmounts} \cup {<<"text">>}
AdminArgs == {<<>>} \cup {<<ident, t>> : ident \in Idents, t \in AmountTexts}

AdminCmds == {"addcoin", "setcoins"}

\* lines 333-342 / 351-360: the command cmd sent by tg; the authorisation
\* check comes first, then the argument checks
AdminCallWith(p, bound, cmd, tg) ==
    /\ pc[p] = "idle"
    /\ ncalls < bound
    /\ ncalls' = ncalls + 1
    /\ IF ~is_admin(tg) THEN Finish(p, "Unauthorized")
       ELSE \E args \in AdminArgs :
              IF Len(args) < 2 THEN Finish(p, "usage")
              ELSE IF ~IsIntText(args[2]) THEN Finish(p, "bad_amount")
              ELSE /\ call' = [call EXCEPT ![p] =
                         [cmd |-> cmd, tg |-> tg, arg |-> args[1],
                          amount |-> ParseInt(args[2])]]
                   /\ result' = [result EXCEPT ![p] = "running"]
                   /\ Goto(p, "ident_select")
                   /\ UNCHANGED <<loc, snap, reply>>
    /\ NoDb

AdminCall(p, bound) ==
    \E cmd \in AdminCmds, tg \in Ids : AdminCallWith(p, bound, cmd, tg)

\* lines 343-346 / 361-364: row = get_user_by_identifier(ident)
IdentSelect(p) ==
    /\ pc[p] = "ident_select"
    /\ LET tg_id == get_user_by_identifier(users, call[p].arg) IN
       IF tg_id = NULL THEN Finish(p, "not_found")
       ELSE /\ loc' = [loc EXCEPT ![p] = tg_id]
            /\ IF call[p].cmd = "addcoin" THEN Goto(p, "addcoin_update")
                                          ELSE Goto(p, "setcoins_update")
            /\ UNCHANGED <<call, result, snap, reply>>
    /\ NoDb /\ UNCHANGED ncalls

\* line 347: award_coins(tg_id, amount, kind="admin_adjust", ...)
AddcoinUpdate(p) ==
    /\ pc[p] = "addcoin_update"
    /\ BeginWrite(p, SqlAddCoins(users, loc[p], call[p].amount))
    /\ Goto(p, "addcoin_insert")
    /\ UNCHANGED <<call, loc, result, ncalls, snap, reply>>

AddcoinInsert(p) ==
    /\ pc[p] = "addcoin_insert"
    /\ InsertTx(p, TxRow(loc[p], "admin_adjust", call[p].amount,
                         <<"added_by", call[p].tg>>))
    /\ Goto(p, "addcoin_commit")
    /\ UNCHANGED <<call, loc, result, ncalls, snap, reply>>

AddcoinCommit(p) ==
    /\ pc[p] = "addcoin_commit"
    /\ Commit(p)
    /\ Finish(p, "ok")
    /\ UNCHANGED ncalls

\* line 365: set_coins(tg_id, amount)
SetcoinsUpdate(p) ==
    /\ pc[p] = "setcoins_update"
    /\ BeginWrite(p, SqlSetCoins(users, loc[p], call[p].amount))
    /\ Goto(p, "setcoins_insert")
    /\ UNCHANGED <<call, loc, result, ncalls, snap, reply>>

\* the row logged with the change of the balance instead of its new value
SetcoinsInsertDelta(p) ==
    /\ pc[p] = "setcoins_insert"
    /\ InsertTx(p, TxRow(loc[p], "admin_set", call[p].amount - users[loc[p]].coins,
                         <<"admin_set_coins">>))
    /\ Goto(p, "setcoins_commit")
    /\ UNCHANGED <<call, loc, result, ncalls, snap, reply>>

\* set_coins lines 143-146: INSERT INTO transactions ... 'admin_set', amount
SetcoinsInsert(p) ==
    /\ pc[p] = "setcoins_insert"
    /\ InsertTx(p, TxRow(loc[p], "admin_set", call[p].amount,
                         <<"admin_set_coins">>))
    /\ Goto(p, "setcoins_commit")
    /\ UNCHANGED <<call, loc, result, ncalls, snap, reply>>

SetcoinsCommit(p) ==
    /\ pc[p] = "setcoins_commit"
    /\ Commit(p)
    /\ Finish(p, "ok")
    /\ UNCHANGED ncalls

\* ------------------------------------------------------ read-only commands
\* get_user_by_tg: SELECT ... FROM users WHERE telegram_id=?  (0 when no row)
get_user_by_tg(tbl, tg_id) == IF tbl[tg_id].present THEN tg_id ELSE NULL

\* a missing row read as a fresh account
get_balance_missing_as_new(tbl, tg_id) ==
    IF tbl[tg_id].present THEN tbl[tg_id].coins ELSE NEW_USER_COINS

\* get_balance: row[0] if row else 0
get_balance(tbl, tg_id) == IF tbl[tg_id].present THEN tbl[tg_id].coins ELSE 0

\* list_users: the telegram_ids ORDER BY created_at DESC LIMIT ?
list_users(tbl, limit) ==
    LET present == {i \in Ids : tbl[i].present}
        n == Cardinality(present)
        rows == CHOOSE f \in [1..n -> present] :
                    \A j, k \in 1..n :
                        j < k => tbl[f[j]].created_at > tbl[f[k]].created_at
    IN  SubSeq(rows, 1, IF limit < n THEN limit ELSE n)

\* SELECT COUNT(*) FROM users
CountUsers(tbl) == Cardinality({i \in Ids : tbl[i].present})

RECURSIVE SumOver(_, _)
SumOver(tbl, S) ==
    IF S = {} THEN 0
    ELSE LET i == CHOOSE x \in S : TRUE IN tbl[i].coins + SumOver(tbl, S \ {i})

\* SELECT SUM(coins) FROM users, "or 0" for the NULL of an empty table
SumCoins(tbl) == SumOver(tbl, {i \in Ids : tbl[i].present})

\* balance_cmd called by tg
BalanceCallWith(p, bound, tg) ==
    /\ pc[p] = "idle"
    /\ ncalls < bound
    /\ ncalls' = ncalls + 1
    /\ FinishReply(p, "balance", <<get_balance(users, tg)>>)
    /\ NoDb

BalanceCall(p, bound) == \E tg \in Ids : BalanceCallWith(p, bound, tg)

\* referral_cmd: the caller's referral code, or "User not found"
ReferralCall(p, bound) ==
    /\ pc[p] = "idle"
    /\ ncalls < bound
    /\ ncalls' = ncalls + 1
    /\ \E tg \in Ids :
         IF get_user_by_tg(users, tg) = NULL THEN Finish(p, "not_registered")
         ELSE FinishReply(p, "referral_link", users[tg].referral_code)
    /\ NoDb

\* deposit_cmd: payment instructions naming the caller; no table is read
DepositCall(p, bound) ==
    /\ pc[p] = "idle"
    /\ ncalls < bound
    /\ ncalls' = ncalls + 1
    /\ \E tg \in Ids : FinishReply(p, "deposit_info", DisplayName(tg))
    /\ NoDb

\* users_cmd called by tg
UsersCallWith(p, bound, tg) ==
    /\ pc[p] = "idle"
    /\ ncalls < bound
    /\ ncalls' = ncalls + 1
    /\ IF ~is_admin(tg) THEN Finish(p, "Unauthorized")
       ELSE FinishReply(p, "users", list_users(users, 200))
    /\ NoDb

UsersCall(p, bound) == \E tg \in Ids : UsersCallWith(p, bound, tg)

\* broadcast_cmd called by tg: each send_message may fail and is skipped
BroadcastCallWith(p, bound, tg) ==
    /\ pc[p] = "idle"
    /\ ncalls < bound
    /\ ncalls' = ncalls + 1
    /\ IF ~is_admin(tg) THEN Finish(p, "Unauthorized")
       ELSE \E msg \in {"", "m"} :
              IF msg = "" THEN Finish(p, "usage")
              ELSE \E sent \in 0..Len(list_users(users, 10000)) :
                     FinishReply(p, "broadcast", <<sent>>)
    /\ NoDb

BroadcastCall(p, bound) == \E tg \in Ids : BroadcastCallWith(p, bound, tg)

\* stats_cmd called by tg: the authorisation check
StatsCallWith(p, bound, tg) ==
    /\ pc[p] = "idle"
    /\ ncalls < bound
    /\ ncalls' = ncalls + 1
    /\ IF ~is_admin(tg) THEN Finish(p, "Unauthorized")
       ELSE /\ call' = [call EXCEPT ![p] =
                  [cmd |-> "stats", tg |-> tg, arg |-> None, amount |-> 0]]
            /\ result' = [result EXCEPT ![p] = "running"]
            /\ Goto(p, "stats_count")
            /\ UNCHANGED <<loc, snap, reply>>
    /\ NoDb

StatsCall(p, bound) == \E tg \in Ids : StatsCallWith(p, bound, tg)

\* line 373: SELECT COUNT(*) FROM users
StatsCount(p) ==
    /\ pc[p] = "stats_count"
    /\ loc' = [loc EXCEPT ![p] = CountUsers(users)]
    /\ Goto(p, "stats_sum")
    /\ NoDb /\ UNCHANGED <<call, result, ncalls, snap, reply>>

\* lines 375-378: SELECT SUM(coins) FROM users, then the reply
StatsSum(p) ==
    /\ pc[p] = "stats_sum"
    /\ FinishReply(p, "stats", <<loc[p], SumCoins(users)>>)
    /\ NoDb /\ UNCHANGED ncalls

InfoStep(p, bound) ==
    \/ BalanceCall(p, bound) \/ ReferralCall(p, bound) \/ DepositCall(p, bound)
    \/ UsersCall(p, bound) \/ BroadcastCall(p, bound)
    \/ StatsCall(p, bound) \/ StatsCount(p) \/ StatsSum(p)

StartStep(p, bound) ==
    \/ StartCall(p, bound) \/ EnsureSelect(p) \/ EnsureInsertUser(p)
    \/ EnsureInsertTx(p) \/ EnsureCommit(p) \/ RefLookup(p) \/ RefSelect(p)
    \/ RefUpdate(p) \/ RefCommit(p)
    \/ AwardReferrerUpdate(p) \/ AwardReferrerInsert(p) \/ AwardReferrerCommit(p)
    \/ AwardReferredUpdate(p) \/ AwardReferredInsert(p) \/ AwardReferredCommit(p)

SearchStep(p, bound) ==
    \/ SearchCall(p, bound) \/ DeductSelect(p) \/ DeductUpdate(p)
    \/ DeductInsert(p) \/ DeductCommit(p) \/ Lookup(p)

AdminStep(p, bound) ==
    \/ AdminCall(p, bound) \/ IdentSelect(p)
    \/ AddcoinUpdate(p) \/ AddcoinInsert(p) \/ AddcoinCommit(p)
    \/ SetcoinsUpdate(p) \/ SetcoinsInsert(p) \/ SetcoinsCommit(p)

\* Overlapping callers: the statements of the running handlers interleave.
Next ==
    \E p \in Procs :
        \/ StartStep(p, MaxCalls) \/ SearchStep(p, MaxCalls)
        \/ AdminStep(p, MaxCalls) \/ InfoStep(p, MaxCalls)

Spec == Init /\ [][Next]_vars

\* Overlapping /start commands only, with room for one call more.
NextStart == \E p \in Procs : StartStep(p, MaxStartCalls)

SpecStart == Init /\ [][NextStart]_vars

\* One update at a time: the Application is built without concurrent_updates
\* (line 385) and no handler awaits between its SQL statements, so a handler
\* runs its statements to the end before the next update is taken.
Serial(p) == \A q \in Procs \ {p} : pc[q] = "idle"

NextSeq ==
    \E p \in Procs :
        /\ Serial(p)
        /\ \/ StartStep(p, MaxCalls) \/ SearchStep(p, MaxCalls)
           \/ AdminStep(p, MaxCalls) \/ InfoStep(p, MaxCalls)

SpecSeq == Init /\ [][NextSeq]_vars

\* ===================================================================== claims
Rows == 1..Len(transactions)

RowsOf(i, kind) ==
    {k \in Rows : transactions[k].telegram_id = i /\ transactions[k].kind = kind}

HasAdminRow(i) == RowsOf(i, "admin_adjust") \cup RowsOf(i, "admin_set") # {}

\* C1: two overlapping debits of 1 against a balance of 1 never both succeed:
\* an account whose balance no admin command touched is never negative.
C1_ConcurrentDebitsNeverOverdraw ==
    \A i \in Ids : users[i].present /\ ~HasAdminRow(i) => users[i].coins >= 0

\* C2: over all sequences and overlaps of ensure_user calls, an identity with
\* an account has exactly one 'reward' row, of NEW_USER_COINS, an identity
\* without one has none, and an account with no other row holds NEW_USER_COINS.
C2_OneSigningBonus ==
    \A i \in Ids :
        /\ Cardinality(RowsOf(i, "reward")) = IF users[i].present THEN 1 ELSE 0
        /\ \A k \in RowsOf(i, "reward") : transactions[k].amount = NEW_USER_COINS
        /\ users[i].present
           /\ (\A k \in Rows : transactions[k].telegram_id = i
                                  => transactions[k].kind = "reward")
           => users[i].coins = NEW_USER_COINS

\* an overlapping first-time call for the same identity was turned away
C2_Witness ==
    \E p \in Procs, i \in Ids :
        /\ result[p] = "IntegrityError"
        /\ users[i].present
        /\ Cardinality(RowsOf(i, "reward")) = 1

\* C3: once referred_by of an account is set, no step changes it.
C3_ReferredBySetOnce ==
    [][\A i \in Ids : users[i].referred_by # NULL
                        => users'[i].referred_by = users[i].referred_by]_vars

\* C4: a referred account gets at most one 'referral' credit of its own, and
\* its referrer at most one 'referral' credit on its behalf.
C4_NoDoubleReferralGrant ==
    \A i \in Ids :
        /\ Cardinality({k \in RowsOf(i, "referral") :
                          transactions[k].note[1] = "referred_by"}) <= 1
        /\ Cardinality({k \in Rows : /\ transactions[k].kind = "referral"
                                     /\ transactions[k].note = <<"referred", i>>}) <= 1

\* C5: a debit that reads a balance below the amount returns "insufficient"
\* in that step and leaves both tables as they were.
C5_InsufficientFundsNoChange ==
    [][\A p \in Procs :
          /\ pc[p] = "deduct_select"
          /\ pc'[p] # pc[p]
          /\ users[call[p].tg].present
          /\ users[call[p].tg].coins < call[p].amount
          => /\ pc'[p] = "idle"
             /\ result'[p] = "insufficient"
             /\ users' = users
             /\ transactions' = transactions
             /\ lock' = lock]_vars

C5_Witness ==
    \E p \in Procs, i \in Ids :
        result[p] = "insufficient" /\ users[i].present /\ users[i].coins = 0

\* the balance the log accounts for: the last admin_set amount plus the
\* amounts logged after it
RECURSIVE LedgerBalance(_, _)
LedgerBalance(txs, i) ==
    IF txs = <<>> THEN 0
    ELSE LET n == Len(txs)
             rest == LedgerBalance(SubSeq(txs, 1, n - 1), i)
         IN  IF txs[n].telegram_id # i THEN rest
             ELSE IF txs[n].kind = "admin_set" THEN txs[n].amount
             ELSE rest + txs[n].amount

\* C6: in every state the balance of an account is the last admin_set amount
\* plus the amounts logged after it, and a step that changes a balance
\* appends exactly one row, for that identity.
C6_BalanceReconciles ==
    /\ [](\A i \in Ids :
            users[i].present => users[i].coins = LedgerBalance(transactions, i))
    /\ [][\A i \in Ids :
            users'[i].coins # users[i].coins
            => /\ Len(transactions') = Len(transactions) + 1
               /\ SubSeq(transactions', 1, Len(transactions)) = transactions
               /\ transactions'[Len(transactions')].telegram_id = i]_vars

\* an admin_set row with a later row of the same identity
C6_Witness ==
    \E i \in Ids, k \in Rows, j \in Rows :
        /\ k < j
        /\ transactions[k].telegram_id = i /\ transactions[k].kind = "admin_set"
        /\ transactions[j].telegram_id = i /\ transactions[j].amount # 0
        /\ users[i].coins # transactions[k].amount

\* C7: a /start whose token is the caller's own referral code never gets past
\* the referral lookup; no account is its own referrer and no 'referral' row
\* credits an identity for referring itself.
C7_SelfReferralNoReward ==
    /\ \A p \in Procs :
          call[p].cmd = "start" /\ call[p].arg = generate_referral_code(call[p].tg)
          => pc[p] \in {"ensure_select", "ensure_insert_user", "ensure_insert_tx",
                        "ensure_commit", "ref_lookup"}
    /\ \A i \in Ids : users[i].present => users[i].referred_by # i
    /\ \A k \in Rows : transactions[k].kind = "referral"
                          => transactions[k].note[2] # transactions[k].telegram_id

C7_Witness ==
    \E p \in Procs, i \in Ids :
        /\ result[p] = "self_referral"
        /\ users[i].present /\ users[i].referred_by = NULL
        /\ users[i].coins = NEW_USER_COINS

\* C8: no committed state has referred_by set while one of the two referral
\* credits it stands for is missing.
C8_ReferralAllOrNothing ==
    \A i \in Ids :
        users[i].referred_by # NULL
        => /\ \E k \in RowsOf(i, "referral") :
                 transactions[k].note = <<"referred_by", users[i].referred_by>>
           /\ \E k \in RowsOf(users[i].referred_by, "referral") :
                 transactions[k].note = <<"referred", i>>

\* C9: no ensure_user call ends by raising.
C9_EnsureUserNeverRaises == \A p \in Procs : result[p] # "IntegrityError"

\* C10: a /start that found referred_by unset and a token of another account B
\* ends with referred_by = B, both balances REFERRAL_REWARD above what they
\* were when it looked, and the log longer by the two 'referral' rows.
C10_ReferralProvisioning ==
    [][\A p \in Procs :
          pc[p] = "award_referred_commit" /\ pc'[p] = "idle"
          => LET A == call[p].tg
                 B == loc[p]
                 before == snap[p]
             IN  /\ A # B /\ before.users[B].present
                 /\ before.users[A].referred_by = NULL
                 /\ users'[A].referred_by = B
                 /\ users'[A].coins = before.users[A].coins + REFERRAL_REWARD
                 /\ users'[B].coins = before.users[B].coins + REFERRAL_REWARD
                 /\ \A i \in Ids \ {A, B} : users'[i] = before.users[i]
                 /\ transactions' = before.transactions \o
                        << TxRow(B, "referral", REFERRAL_REWARD, <<"referred", A>>),
                           TxRow(A, "referral", REFERRAL_REWARD, <<"referred_by", B>>) >>]_vars

C10_Witness ==
    \E p \in Procs, i \in Ids :
        /\ result[p] = "referred"
        /\ users[i].referred_by # NULL
        /\ Cardinality({k \in Rows : transactions[k].kind = "referral"}) = 2

\* C11: with one update handled at a time, a debit that reads a balance of
\* at least the amount goes on to write; its commit finds that balance still
\* there, lowers it by exactly the amount, leaves every other row alone and
\* appends the one 'search' row of minus the amount; the next debit of an
\* account so brought to 0 returns "insufficient".
C11_SuccessfulDebit ==
    [][\A p \in Procs :
          LET tg == call[p].tg
              amount == call[p].amount
          IN  /\ pc[p] = "deduct_select" /\ pc'[p] # pc[p]
                 /\ users[tg].present /\ users[tg].coins >= amount
                 => pc'[p] = "deduct_update"
              /\ pc[p] = "deduct_commit" /\ pc'[p] # pc[p]
                 => /\ users[tg].present /\ users[tg].coins >= amount
                    /\ users' = [users EXCEPT ![tg].coins = @ - amount]
                    /\ transactions' =
                          Append(transactions,
                                 TxRow(tg, "search", -amount, <<"osint_search">>))
              /\ pc[p] = "deduct_select" /\ pc'[p] # pc[p]
                 /\ transactions # <<>>
                 /\ transactions[Len(transactions)] =
                        TxRow(tg, "search", -amount, <<"osint_search">>)
                 /\ users[tg].coins = 0
                 => result'[p] = "insufficient" /\ users' = users
                    /\ transactions' = transactions]_vars

\* a debit took the balance from 1 to 0 and the debit right after it failed
C11_Witness ==
    \E p \in Procs, i \in Ids :
        /\ result[p] = "insufficient"
        /\ users[i].present /\ users[i].coins = 0
        /\ Len(transactions) = 2
        /\ transactions[1] = TxRow(i, "reward", NEW_USER_COINS, <<"new_user_bonus">>)
        /\ transactions[2] = TxRow(i, "search", -COIN_COST_PER_SEARCH, <<"osint_search">>)

\* C12: the commit of set_coins leaves the account with exactly the amount
\* given, whatever it held before, changes no other row and appends the one
\* 'admin_set' row whose amount is that new balance.
C12_SetBalanceOverwrites ==
    [][\A p \in Procs :
          pc[p] = "setcoins_commit" /\ pc'[p] # pc[p]
          => LET tg == loc[p]
                 amount == call[p].amount
             IN  /\ users[tg].present
                 /\ users' = [users EXCEPT ![tg].coins = amount]
                 /\ get_balance(users', tg) = amount
                 /\ transactions' =
                       Append(transactions,
                              TxRow(tg, "admin_set", amount, <<"admin_set_coins">>))
                 /\ result'[p] = "ok"]_vars

\* an account that held its signing bonus was set to -1
C12_Witness ==
    \E p \in Procs, i \in Ids :
        /\ result[p] = "ok"
        /\ users[i].present /\ users[i].coins = -1
        /\ Len(transactions) = 2
        /\ transactions[1] = TxRow(i, "reward", NEW_USER_COINS, <<"new_user_bonus">>)
        /\ transactions[2] = TxRow(i, "admin_set", -1, <<"admin_set_coins">>)

\* C13: a debit that finds no row for its identity returns "user_not_found"
\* in that step and writes nothing; balance_cmd for an identity with no row
\* replies with 0; neither step creates the account.
C13_UnknownIdentity ==
    [][\A p \in Procs :
          /\ pc[p] = "deduct_select" /\ pc'[p] # pc[p]
             /\ ~users[call[p].tg].present
             => /\ pc'[p] = "idle"
                /\ result'[p] = "user_not_found"
                /\ users' = users /\ transactions' = transactions
                /\ lock' = lock
          /\ \A tg \in Ids :
                BalanceCallWith(p, MaxCalls, tg) /\ ~users[tg].present
                => /\ result'[p] = "balance"
                   /\ reply'[p] = <<0>>
                   /\ users' = users /\ transactions' = transactions
                   /\ lock' = lock]_vars

\* with no account in the table, one caller's debit was turned away and
\* another's balance was reported as 0
C13_Witness ==
    \E p, q \in Procs :
        /\ result[p] = "user_not_found"
        /\ result[q] = "balance" /\ reply[q] = <<0>>
        /\ \A i \in Ids : ~users[i].present
        /\ transactions = <<>>

\* C14: with one update handled at a time, an ensure_user call that finds no
\* row for its identity goes on to insert without raising, and its commit
\* (after which it returns True) adds exactly the account with NEW_USER_COINS,
\* the referral code generated from the identity and referred_by unset, and
\* appends exactly the one 'reward' row of NEW_USER_COINS.
C14_FirstProvisioning ==
    [][\A p \in Procs :
          LET tg == call[p].tg IN
          /\ pc[p] = "ensure_select" /\ pc'[p] # pc[p] /\ ~users[tg].present
             => pc'[p] = "ensure_insert_user"
          /\ pc[p] = "ensure_insert_user" /\ pc'[p] # pc[p]
             => pc'[p] = "ensure_insert_tx"
          /\ pc[p] = "ensure_commit" /\ pc'[p] # pc[p]
             => /\ ~users[tg].present
                /\ users'[tg].present
                /\ users'[tg].coins = NEW_USER_COINS
                /\ get_balance(users', tg) = NEW_USER_COINS
                /\ users'[tg].referral_code = generate_referral_code(tg)
                /\ users'[tg].referred_by = NULL
                /\ \A i \in Ids \ {tg} : users'[i] = users[i]
                /\ transactions' =
                      Append(transactions,
                             TxRow(tg, "reward", NEW_USER_COINS, <<"new_user_bonus">>))
                /\ pc'[p] = "ref_lookup"]_vars

\* the first call of a run has just returned from creating its account
C14_Witness ==
    \E p \in Procs, i \in Ids :
        /\ ncalls = 1
        /\ pc[p] = "ref_lookup" /\ call[p].tg = i
        /\ users[i] = NewUserRow(i, 1)
        /\ transactions = << TxRow(i, "reward", NEW_USER_COINS, <<"new_user_bonus">>) >>

\* the award_coins call whose commit p is about to run: its (tg_id, amount,
\* kind, note) arguments at lines 229, 230 and 347
AwardArgs(p) ==
    IF pc[p] = "addcoin_commit"
    THEN TxRow(loc[p], "admin_adjust", call[p].amount, <<"added_by", call[p].tg>>)
    ELSE IF pc[p] = "award_referrer_commit"
    THEN TxRow(loc[p], "referral", REFERRAL_REWARD, <<"referred", call[p].tg>>)
    ELSE TxRow(call[p].tg, "referral", REFERRAL_REWARD, <<"referred_by", loc[p]>>)

\* C15: award_coins has no failing branch; its commit changes the balance of
\* its (existing) identity by exactly the amount, whatever its sign and
\* whatever the balance, leaves every other account and every referred_by as
\* they were, and appends exactly the one (identity, kind, amount) row.
C15_CreditUnconditional ==
    [][\A p \in Procs :
          /\ pc[p] = "addcoin_update" /\ pc'[p] # pc[p]
             => pc'[p] = "addcoin_insert"
          /\ pc[p] = "addcoin_insert" /\ pc'[p] # pc[p]
             => pc'[p] = "addcoin_commit"
          /\ pc[p] \in {"addcoin_commit", "award_referrer_commit",
                        "award_referred_commit"}
             /\ pc'[p] # pc[p]
             => LET a == AwardArgs(p) IN
                /\ users[a.telegram_id].present
                /\ users' = [users EXCEPT ![a.telegram_id].coins = @ + a.amount]
                /\ transactions' = Append(transactions, a)
                /\ pc[p] = "addcoin_commit" => result'[p] = "ok"]_vars

\* a credit of -1 was applied to an account holding 0
C15_Witness ==
    \E p \in Procs, i \in Ids :
        /\ result[p] = "ok"
        /\ users[i].present /\ users[i].coins = -1
        /\ Len(transactions) = 3
        /\ transactions[2].telegram_id = i
        /\ transactions[3] \in
              {TxRow(i, "admin_adjust", -1, <<"added_by", a>>) : a \in ADMIN_IDS}
        /\ LedgerBalance(SubSeq(transactions, 1, 2), i) = 0

\* C16: no step removes an account or changes its referral_code or
\* created_at; the log only grows, its existing rows staying as they are; and
\* in every state two accounts have different referral codes.
C16_LifecycleInvariants ==
    /\ [](\A i, j \in Ids :
            users[i].present /\ users[j].present /\ i # j
            => users[i].referral_code # users[j].referral_code)
    /\ [][/\ \A i \in Ids :
              users[i].present
              => /\ users'[i].present
                 /\ users'[i].referral_code = users[i].referral_code
                 /\ users'[i].created_at = users[i].created_at
          /\ Len(transactions') >= Len(transactions)
          /\ SubSeq(transactions', 1, Len(transactions)) = transactions]_vars

\* two accounts created one after the other are both still there, with
\* their own codes and creation times, after a later command wrote to the log
C16_Witness ==
    \E i, j \in Ids :
        /\ users[i].present /\ users[j].present
        /\ users[i].created_at = 1 /\ users[j].created_at = 2
        /\ users[i].referral_code = generate_referral_code(i)
        /\ users[j].referral_code = generate_referral_code(j)
        /\ Len(transactions) = 3
        /\ transactions[1] = TxRow(i, "reward", NEW_USER_COINS, <<"new_user_bonus">>)
        /\ transactions[2] = TxRow(j, "reward", NEW_USER_COINS, <<"new_user_bonus">>)
        /\ transactions[3].kind # "reward"

SearchRow(tg) ==
    TxRow(tg, "search", -COIN_COST_PER_SEARCH, <<"osint_search">>)

\* C17: a search request of a caller outside ADMIN_IDS reaches the lookup only
\* by the commit of its own debit of COIN_COST_PER_SEARCH and ends without a
\* lookup when the debit is refused; a request of a caller in ADMIN_IDS
\* reaches the lookup straight from the command, no step of it changes a
\* table, and no 'search' row is ever logged for such a caller; a lookup
\* result is only ever produced by the lookup step.
C17_SearchGating ==
    /\ [](\A k \in Rows : transactions[k].kind = "search"
                              => transactions[k].telegram_id \notin ADMIN_IDS)
    /\ [][\A p \in Procs :
           /\ pc'[p] = "lookup" /\ pc[p] # "lookup"
              => \/ /\ pc[p] = "deduct_commit"
                    /\ call'[p] = call[p]
                    /\ call[p].tg \notin ADMIN_IDS
                    /\ transactions' = Append(transactions, SearchRow(call[p].tg))
                    /\ users' =
                          [users EXCEPT ![call[p].tg].coins = @ - COIN_COST_PER_SEARCH]
                 \/ /\ pc[p] = "idle"
                    /\ call'[p].tg \in ADMIN_IDS
                    /\ users' = users /\ transactions' = transactions
                    /\ lock' = lock
           /\ pc[p] = "deduct_select" /\ pc'[p] # pc[p]
              /\ (~users[call[p].tg].present
                    \/ users[call[p].tg].coins < call[p].amount)
              => /\ pc'[p] = "idle"
                 /\ result'[p] \in {"user_not_found", "insufficient"}
           /\ pc[p] # "idle" /\ pc'[p] = "idle" /\ result'[p] \in {"data", "error"}
              => pc[p] = "lookup"
           /\ call[p].cmd = "search" /\ call[p].tg \in ADMIN_IDS /\ pc'[p] # pc[p]
              => /\ pc[p] = "lookup"
                 /\ users' = users /\ transactions' = transactions
                 /\ lock' = lock]_vars

\* a paying caller's request stands at the lookup after its debit while an
\* exempt caller's request stands there with nothing debited
C17_Witness ==
    \E p, q \in Procs :
        /\ pc[p] = "lookup" /\ call[p].tg \notin ADMIN_IDS
        /\ users[call[p].tg].coins = 0
        /\ transactions[Len(transactions)] = SearchRow(call[p].tg)
        /\ pc[q] = "lookup" /\ call[q].tg \in ADMIN_IDS
        /\ RowsOf(call[q].tg, "search") = {}

\* C18: in every state reached by the bot's commands, every row of the log
\* names an identity that has an account.
C18_NoOrphanRows ==
    \A k \in Rows : users[transactions[k].telegram_id].present

\* an admin command named an identity without an account and was turned
\* away, after another had written its row for an existing one
C18_Witness ==
    \E p \in Procs, i \in Ids, k \in Rows :
        /\ result[p] = "not_found"
        /\ ~users[i].present
        /\ transactions[k].kind \in {"admin_adjust", "admin_set"}
        /\ users[transactions[k].telegram_id].present

\* C19: users, broadcast, addcoin, setcoins or stats sent by an identity
\* outside ADMIN_IDS ends in that step with "Unauthorized", no balance,
\* referred_by or log row having changed; no such identity is ever inside the
\* body of one of these commands.
C19_AdminCommandsGated ==
    /\ [](\A p \in Procs :
            call[p].cmd \in AdminCmds \cup {"stats"} => call[p].tg \in ADMIN_IDS)
    /\ [][\A p \in Procs, tg \in Ids \ ADMIN_IDS :
           \/ UsersCallWith(p, MaxCalls, tg)
           \/ BroadcastCallWith(p, MaxCalls, tg)
           \/ StatsCallWith(p, MaxCalls, tg)
           \/ \E cmd \in AdminCmds : AdminCallWith(p, MaxCalls, cmd, tg)
           => /\ pc'[p] = "idle"
              /\ result'[p] = "Unauthorized"
              /\ reply'[p] = NoReply
              /\ users' = users /\ transactions' = transactions
              /\ lock' = lock /\ pusers' = pusers /\ ptx' = ptx]_vars

\* a caller was turned away while an account holds its signing bonus
C19_Witness ==
    \E p \in Procs, i \in Ids :
        /\ result[p] = "Unauthorized"
        /\ users[i] = NewUserRow(i, 1)
        /\ transactions = << TxRow(i, "reward", NEW_USER_COINS, <<"new_user_bonus">>) >>

LedgerKinds == {"reward", "referral", "search", "admin_adjust", "admin_set"}

\* C20: while a paying caller's search request is at the lookup its 'search'
\* row is in the log; the lookup step ends the request, with data or with an
\* error, and changes neither table, so nothing credits the cost back; the
\* log never holds a row of a kind other than the five the program writes.
C20_SearchDebitFinal ==
    /\ [](\A p \in Procs :
            pc[p] = "lookup" /\ call[p].tg \notin ADMIN_IDS
            => \E k \in Rows : transactions[k] = SearchRow(call[p].tg))
    /\ [](\A k \in Rows : transactions[k].kind \in LedgerKinds)
    /\ [][\A p \in Procs :
           pc[p] = "lookup" /\ pc'[p] # pc[p]
           => /\ pc'[p] = "idle"
              /\ result'[p] \in {"data", "error"}
              /\ users' = users /\ transactions' = transactions
              /\ lock' = lock /\ pusers' = pusers /\ ptx' = ptx]_vars

\* the lookup of a paid search failed and the account is left at 0
C20_Witness ==
    \E p \in Procs, i \in Ids :
        /\ ncalls = 2
        /\ pc[p] = "idle" /\ result[p] = "error"
        /\ users[i].present /\ users[i].coins = NEW_USER_COINS - COIN_COST_PER_SEARCH
        /\ transactions =
              << TxRow(i, "reward", NEW_USER_COINS, <<"new_user_bonus">>),
                 SearchRow(i) >>

====
